---- MODULE Spec2Model ----
(***************************************************************************)
(* Subscription Gate, Request Orchestrator and PayPal Ledger Updater of    *)
(* the EcoPredict backend (src/functions/index.js, src/webhook_handler.js) *)
(* The Firestore documents are the shared state; every analysis request    *)
(* and every webhook delivery is a process whose steps are the stretches   *)
(* of handler code between two awaits.                                     *)
(***************************************************************************)
EXTENDS Integers, Sequences, FiniteSets, TLC

VARIABLES statusDoc, usageDoc, req, hook, tally

vars == <<statusDoc, usageDoc, req, hook, tally>>

------------------------------------------------------------------------------
(* Bounds and program constants *)

FREE_TIER_LIMIT == 5

MaxInitCount == 6

\* Gate evaluations after which a tallied run sends no further request
MaxRequests == 7

Users == {"u1", "u2"}

\* slots of analysis requests in flight and of webhook deliveries in flight
Reqs == {"r1", "r2"}

Hooks == {"h1", "h2"}

PaypalIds == {"P1", "P2"}

Undefined == "undefined"

ServerTimestamp == "serverTimestamp"

\* values of process.env.K_SERVICE in the processes that serve requests and
\* deliveries; Undefined is a process started without it
KServices == {Undefined, "runanalysis-function", "paypalwebhookhandler"}

DefaultAppId == "default-app-id"

\* typeof process.env.K_SERVICE !== 'undefined' ? process.env.K_SERVICE : 'default-app-id'
AppId(kService) == IF kService # Undefined THEN kService ELSE DefaultAppId

AppIds == {AppId(k) : k \in KServices}

\* db.doc(`/artifacts/${appId}/users/${userId}/subscriptions/status`)
StatusRef(appId, userId) ==
    "/artifacts/" \o appId \o "/users/" \o userId \o "/subscriptions/status"

\* db.doc(`/artifacts/${appId}/users/${userId}/usage/analysis_count`)
UsageRef(appId, userId) ==
    "/artifacts/" \o appId \o "/users/" \o userId \o "/usage/analysis_count"

\* the documents of the store
StatusRefs == {StatusRef(a, u) : a \in AppIds, u \in Users}

UsageRefs == {UsageRef(a, u) : a \in AppIds, u \in Users}

------------------------------------------------------------------------------
(* Firestore documents *)

AbsentStatus ==
    [exists |-> FALSE, tier |-> Undefined, status |-> Undefined,
     paypal_id |-> Undefined, expires_at |-> Undefined, updated_at |-> Undefined]

AbsentUsage == [exists |-> FALSE, count |-> 0, last_use |-> Undefined]

\* variant: a written count is an increment of the stored count
MergeSet_Increment(doc, fields) ==
    [k \in DOMAIN doc |->
        IF k = "exists" THEN TRUE
        ELSE IF k \in DOMAIN fields
             THEN IF k = "count" THEN doc[k] + 1 ELSE fields[k]
             ELSE doc[k]]

\* variant: a written status is appended to the status the document holds
MergeSet_Appending(doc, fields) ==
    [k \in DOMAIN doc |->
        IF k = "exists" THEN TRUE
        ELSE IF k \in DOMAIN fields
             THEN IF k = "status" /\ doc.exists
                  THEN doc[k] \o "," \o fields[k]
                  ELSE fields[k]
             ELSE doc[k]]

\* DocumentReference.set(fields, {merge: true}): the named fields are
\* overwritten, every other field keeps its value, the document exists after.
MergeSet(doc, fields) ==
    [k \in DOMAIN doc |->
        IF k = "exists" THEN TRUE
        ELSE IF k \in DOMAIN fields THEN fields[k] ELSE doc[k]]

\* snap.data() || default
DataOr(doc, default) == IF doc.exists THEN doc ELSE default

DefaultStatus == [tier |-> "free", status |-> "unknown"]

DefaultUsage == [count |-> 0]

------------------------------------------------------------------------------
(* Messages: a template literal is the sequence of its pieces *)

ProMessage == <<"Pro subscription active.">>

UsageMessage(newCount) ==
    <<"Free tier usage: ", ToString(newCount), "/", ToString(FREE_TIER_LIMIT),
      " analyses used.">>

\* variant: the denial reports the usage like the admission does
LimitMessage_Usage ==
    <<"Free tier usage: ", ToString(FREE_TIER_LIMIT), "/", ToString(FREE_TIER_LIMIT),
      " analyses used.">>

LimitMessage ==
    <<"Free tier limit of ", ToString(FREE_TIER_LIMIT),
      " analyses exceeded. Please upgrade to Pro.">>

InternalErrorMessage == <<"Internal server error during authorization check.">>

UserIdRequiredMessage == <<"User ID is required for authorization.">>

MissingInputMessage == <<"Missing authorization token or analysis data.">>

UnauthorizedMessage == <<"Unauthorized: Invalid authentication token.">>

MethodNotAllowedMessage == <<"Method Not Allowed. Use POST.">>

AnalysisFailedMessage == <<"Failed to generate AI analysis.">>

NoMessage == <<>>

------------------------------------------------------------------------------
(* Analysis request: one invocation of the /runAnalysis handler.  A slot    *)
(* holds the request in flight (adapter, method, header, data) and the      *)
(* invocation's locals.                                                     *)

Adapters == {"express", "gcf"}

Methods == {"POST", "GET"}

\* the ID tokens of the model and the subject admin.auth().verifyIdToken
\* decodes them to; "expired" is a token it rejects
Tokens == {"tok1", "tok2", "expired"}

ValidToken(token) == token \in {"tok1", "tok2"}

VerifyIdToken(token) == IF token = "tok1" THEN "u1" ELSE "u2"

\* values of the Authorization header; Undefined is a request without it
Headers == {Undefined, "Basic abc", "Bearer "} \cup {"Bearer " \o t : t \in Tokens}

\* values of req.body.data
Payloads == {Undefined, "payload"}

\* process.env.GEMINI_API_KEY of the process that serves the request;
\* Undefined is a process started without it
ApiKeys == {Undefined, "key"}

RequestMessages ==
    { m \in [adapter : Adapters, method : Methods, header : Headers, data : Payloads,
             apiKey : ApiKeys, kService : {Undefined, "runanalysis-function"}] :
        m.adapter = "express" => m.method = "POST" }

\* outcomes of runGeminiAnalysis: the parsed result, or one of its throws
OracleOutcomes == {"ok", "empty", "malformed", "transport", "missing_key"}

NoDecision == [canProceed |-> FALSE, message |-> NoMessage]

NoBody ==
    [error |-> NoMessage, success |-> FALSE, message |-> NoMessage,
     result |-> Undefined]

NoStatusData == [tier |-> Undefined, status |-> Undefined]

NoMsg == [adapter |-> Undefined, method |-> Undefined, header |-> Undefined,
          data |-> Undefined, apiKey |-> Undefined, kService |-> Undefined]

OffReq ==
    [pc |-> "off", msg |-> NoMsg, token |-> Undefined, uid |-> Undefined,
     statusGot |-> FALSE, statusData |-> NoStatusData,
     usageGot |-> FALSE, currentCount |-> 0, newCount |-> 0,
     fault |-> "none", gate |-> "none", authCheck |-> NoDecision, oracle |-> "none",
     status |-> 0, body |-> NoBody, calls |-> <<>>]

\* a request in flight, not yet handled
IdleReq(m) == [OffReq EXCEPT !.pc = "idle", !.msg = m]

\* JavaScript truthiness of the values a header, token, payload or id takes
Falsy(v) == v \in {Undefined, "null", ""}

\* String.prototype.split('Bearer ') on the header values of the model
SplitBearer(header) ==
    IF \E t \in Tokens \cup {""} : header = "Bearer " \o t
    THEN <<"", CHOOSE t \in Tokens \cup {""} : header = "Bearer " \o t>>
    ELSE <<header>>

\* req.headers.authorization ? req.headers.authorization.split('Bearer ')[1] : null
TokenOf(header) ==
    IF Falsy(header) THEN "null"
    ELSE LET parts == SplitBearer(header)
         IN  IF Len(parts) >= 2 THEN parts[2] ELSE Undefined

\* variant: only the token is required
MissingInput_TokenOnly(token, data) == Falsy(token)

\* !token || !analysisData
MissingInput(token, data) == Falsy(token) \/ Falsy(data)

ErrorBody(message) == [NoBody EXCEPT !.error = message]

Respond(q, status, body) ==
    [q EXCEPT !.pc = "done", !.status = status, !.body = body]

MissingInputResponse(q) == Respond(q, 400, ErrorBody(MissingInputMessage))

MethodNotAllowedResponse(q) == Respond(q, 405, ErrorBody(MethodNotAllowedMessage))

\* variant: verification failures answered like a Gate denial
UnauthorizedResponse_Forbidden(q) == Respond(q, 403, ErrorBody(UnauthorizedMessage))

UnauthorizedResponse(q) == Respond(q, 401, ErrorBody(UnauthorizedMessage))

Admit(message) == [canProceed |-> TRUE, message |-> message]

Deny(message) == [canProceed |-> FALSE, message |-> message]

\* variant: the catch block fails open
CatchDecision_FailOpen == Admit(InternalErrorMessage)

\* the catch block of checkSubscription
CatchDecision == Deny(InternalErrorMessage)

\* variant: the tier compared with the wrong spelling
IsProActive_TierTypo(statusData) ==
    statusData.tier = "Pro" /\ statusData.status = "active"

\* variant: the status not looked at
IsProActive_TierOnly(statusData) == statusData.tier = "pro"

\* statusData.tier === 'pro' && statusData.status === 'active'
IsProActive(statusData) == statusData.tier = "pro" /\ statusData.status = "active"

\* variant: the last free use refused
UnderLimit_OffByOne(currentCount) == currentCount + 1 < FREE_TIER_LIMIT

\* variant: the limit compared inclusively
UnderLimit_Inclusive(currentCount) == currentCount <= FREE_TIER_LIMIT

\* currentCount < FREE_TIER_LIMIT
UnderLimit(currentCount) == currentCount < FREE_TIER_LIMIT

\* variant: the use counted twice
NewCount_PlusTwo(currentCount) == currentCount + 2

\* const newCount = currentCount + 1
NewCount(currentCount) == currentCount + 1

\* the fields of the counter merge-write
UsageFields(newCount) == [count |-> newCount, last_use |-> ServerTimestamp]

\* variant: the decision object tested instead of its canProceed
GateDenied_ObjectTested(authCheck) == FALSE

\* !authCheck.canProceed
GateDenied(authCheck) == ~authCheck.canProceed

\* variant: the error sent without setting the status
AnalysisCatch_NoStatus(q) == Respond(q, 200, ErrorBody(AnalysisFailedMessage))

\* the catch block around runGeminiAnalysis
AnalysisCatch(q) == Respond(q, 500, ErrorBody(AnalysisFailedMessage))

\* res.status(200).send({success, message: authCheck.message, result})
AnalysisSuccess(q, aiResult) ==
    Respond(q, 200, [NoBody EXCEPT !.success = TRUE,
                                   !.message = q.authCheck.message,
                                   !.result = aiResult])

\* runGeminiAnalysis from its entry up to `await ai.models.generateContent`:
\* the call is issued and the handler waits for it.  The Express build
\* throws before the call when the key is missing, and the handler's catch
\* answers without any await in between.
RunGeminiAnalysis(q) ==
    IF q.msg.adapter = "express" /\ Falsy(q.msg.apiKey)
    THEN AnalysisCatch([q EXCEPT !.oracle = "missing_key"])
    ELSE [q EXCEPT !.pc = "analysis", !.calls = Append(@, "generateContent")]

\* the pending generateContent call resolves: a parsed result, or a throw
OracleReturns(q, outcome) == [q EXCEPT !.oracle = outcome]

\* The handler after `await checkSubscription(userId)`: a denial is answered
\* 403 with the Gate's message, an admission enters runGeminiAnalysis.
\* The locals of checkSubscription end with its return.
AfterGate(q, authCheck) ==
    LET q1 == [q EXCEPT !.authCheck = authCheck, !.gate = "returned",
                        !.statusGot = FALSE, !.statusData = NoStatusData,
                        !.usageGot = FALSE, !.currentCount = 0, !.newCount = 0]
    IN  IF GateDenied(authCheck)
        THEN Respond(q1, 403, ErrorBody(authCheck.message))
        ELSE RunGeminiAnalysis(q1)

\* checkSubscription from the resolution of Promise.all up to its next await
\* (the merge-write) or its return.
Policy(q) ==
    IF IsProActive(q.statusData)
    THEN AfterGate(q, Admit(ProMessage))
    ELSE IF UnderLimit(q.currentCount)
         THEN [q EXCEPT !.pc = "write",
                        !.newCount = NewCount(q.currentCount),
                        !.calls = Append(@, "usage.set")]
         ELSE AfterGate(q, Deny(LimitMessage))

\* checkSubscription from its entry up to `await Promise.all([...get()])`
EnterGate(q, userId) ==
    LET q1 == [q EXCEPT !.uid = userId, !.gate = "entered"]
    IN  IF q.msg.adapter = "express" /\ Falsy(userId)
        THEN AfterGate(q1, Deny(UserIdRequiredMessage))
        ELSE [q1 EXCEPT !.pc = "reads",
                        !.calls = @ \o <<"status.get", "usage.get">>]

\* The handler from its entry up to `await admin.auth().verifyIdToken(token)`
HandleRequest(q) ==
    LET token == TokenOf(q.msg.header)
        q1 == [q EXCEPT !.token = token]
    IN  IF q.msg.adapter = "gcf" /\ q.msg.method # "POST"
        THEN MethodNotAllowedResponse(q)
        ELSE IF MissingInput(token, q.msg.data)
             THEN MissingInputResponse(q1)
             ELSE [q1 EXCEPT !.pc = "verify", !.calls = Append(@, "verifyIdToken")]


------------------------------------------------------------------------------
(* Tally of the Gate's decisions: history kept for the properties, no state *)
(* of the program.  A run either keeps it for every user or does not.       *)

NoTally == [on |-> FALSE, admitted |-> 0, denied |-> 0, failed |-> 0]

ZeroTally == [on |-> TRUE, admitted |-> 0, denied |-> 0, failed |-> 0]

Tallying == \E u \in Users : tally[u].on

\* Gate evaluations that have returned to the handler
Handled ==
    LET t1 == tally["u1"]
        t2 == tally["u2"]
    IN  t1.admitted + t1.denied + t1.failed + t2.admitted + t2.denied + t2.failed

\* what the Gate returned: an admission, a denial by policy, or the denial of
\* its catch block
Outcome(q) ==
    IF q.fault # "none" THEN "failed"
    ELSE IF q.authCheck.canProceed THEN "admitted" ELSE "denied"

\* the tally after a step of the request from q to q2
Observe(t, q, q2) ==
    IF t.on /\ q.gate # "returned" /\ q2.gate = "returned"
    THEN [t EXCEPT ![Outcome(q2)] = @ + 1]
    ELSE t

Tallied(r) ==
    tally' = IF req'[r].uid \in Users
             THEN [tally EXCEPT ![req'[r].uid] = Observe(@, req[r], req'[r])]
             ELSE tally

------------------------------------------------------------------------------
(* Actions of an analysis request *)

Receive(r) ==
    /\ req[r].pc = "idle"
    /\ req' = [req EXCEPT ![r] = HandleRequest(@)]
    /\ UNCHANGED <<statusDoc, usageDoc, hook, tally>>

\* verifyIdToken rejects: an invalid token, or a fault of the identity service
VerifyFails(r) ==
    /\ req[r].pc = "verify"
    /\ req' = [req EXCEPT ![r] = UnauthorizedResponse(@)]
    /\ UNCHANGED <<statusDoc, usageDoc, hook, tally>>

VerifyOk(r) ==
    /\ req[r].pc = "verify"
    /\ ValidToken(req[r].token)
    /\ req' = [req EXCEPT ![r] = EnterGate(@, VerifyIdToken(@.token))]
    /\ Tallied(r)
    /\ UNCHANGED <<statusDoc, usageDoc, hook>>

StatusGet(r) ==
    /\ req[r].pc = "reads"
    /\ ~req[r].statusGot
    /\ LET d == DataOr(statusDoc[StatusRef(AppId(req[r].msg.kService), req[r].uid)],
                        DefaultStatus)
           q1 == [req[r] EXCEPT !.statusGot = TRUE,
                                !.statusData = [tier |-> d.tier, status |-> d.status]]
       IN  req' = [req EXCEPT ![r] = IF q1.usageGot THEN Policy(q1) ELSE q1]
    /\ Tallied(r)
    /\ UNCHANGED <<statusDoc, usageDoc, hook>>

UsageGet(r) ==
    /\ req[r].pc = "reads"
    /\ ~req[r].usageGot
    /\ LET d == DataOr(usageDoc[UsageRef(AppId(req[r].msg.kService), req[r].uid)],
                        DefaultUsage)
           q1 == [req[r] EXCEPT !.usageGot = TRUE, !.currentCount = d.count]
       IN  req' = [req EXCEPT ![r] = IF q1.statusGot THEN Policy(q1) ELSE q1]
    /\ Tallied(r)
    /\ UNCHANGED <<statusDoc, usageDoc, hook>>

\* one of the two reads rejects: Promise.all rejects, the catch block answers
GetFault(r) ==
    /\ req[r].pc = "reads"
    /\ \E op \in {"status.get", "usage.get"} :
          /\ op = "status.get" => ~req[r].statusGot
          /\ op = "usage.get" => ~req[r].usageGot
          /\ req' = [req EXCEPT ![r] = AfterGate([@ EXCEPT !.fault = op], CatchDecision)]
    /\ Tallied(r)
    /\ UNCHANGED <<statusDoc, usageDoc, hook>>

UsageSet(r) ==
    /\ req[r].pc = "write"
    /\ usageDoc' = [usageDoc EXCEPT
                      ![UsageRef(AppId(req[r].msg.kService), req[r].uid)] =
                          MergeSet(@, UsageFields(req[r].newCount))]
    /\ req' = [req EXCEPT ![r] = AfterGate(@, Admit(UsageMessage(@.newCount)))]
    /\ Tallied(r)
    /\ UNCHANGED <<statusDoc, hook>>

UsageSetFault(r) ==
    /\ req[r].pc = "write"
    /\ req' = [req EXCEPT ![r] = AfterGate([@ EXCEPT !.fault = "usage.set"], CatchDecision)]
    /\ Tallied(r)
    /\ UNCHANGED <<statusDoc, usageDoc, hook>>

AnalysisOk(r) ==
    /\ req[r].pc = "analysis"
    /\ req' = [req EXCEPT ![r] = AnalysisSuccess(OracleReturns(@, "ok"), "json")]
    /\ UNCHANGED <<statusDoc, usageDoc, hook, tally>>

AnalysisFails(r) ==
    /\ req[r].pc = "analysis"
    /\ \E outcome \in OracleOutcomes \ {"ok", "missing_key"} :
          req' = [req EXCEPT ![r] = AnalysisCatch(OracleReturns(@, outcome))]
    /\ UNCHANGED <<statusDoc, usageDoc, hook, tally>>

\* the client sends the same request again
Retry(r) ==
    /\ req[r].pc = "done"
    /\ Tallying => Handled < MaxRequests
    /\ req' = [req EXCEPT ![r] = IdleReq(@.msg)]
    /\ UNCHANGED <<statusDoc, usageDoc, hook, tally>>

------------------------------------------------------------------------------
(* PayPal webhook: one invocation of paypalWebhookHandler.  A slot holds    *)
(* the delivery in flight (method, event_type, resource) and the            *)
(* invocation's locals.                                                     *)

Activated == "BILLING.SUBSCRIPTION.ACTIVATED"

Cancelled == "BILLING.SUBSCRIPTION.CANCELLED"

Expired == "BILLING.SUBSCRIPTION.EXPIRED"

\* an event the handler only acknowledges
SaleCompleted == "PAYMENT.SALE.COMPLETED"

EventTypes == {Activated, Cancelled, Expired, SaleCompleted}

\* String.prototype.toLowerCase on the event types
ToLowerCase(eventType) ==
    CASE eventType = Activated     -> "billing.subscription.activated"
      [] eventType = Cancelled     -> "billing.subscription.cancelled"
      [] eventType = Expired       -> "billing.subscription.expired"
      [] eventType = SaleCompleted -> "payment.sale.completed"
      [] OTHER                     -> eventType

NoSubscriber == [present |-> FALSE, custom_id |-> Undefined]

Subscriber(id) == [present |-> TRUE, custom_id |-> id]

NoResource ==
    [present |-> FALSE, id |-> Undefined, subscriber |-> NoSubscriber,
     custom_id |-> Undefined]

\* data.resource of the payloads
Resources ==
    {NoResource} \cup
    [present : {TRUE}, id : PaypalIds,
     subscriber : {NoSubscriber} \cup {Subscriber(i) : i \in Users \cup {Undefined}},
     custom_id : Users \cup {Undefined}]

\* the deliveries: every POST, and one request of another method, served by
\* a process without K_SERVICE
WebhookMessages ==
    [method : {"POST"}, event_type : EventTypes \cup {Undefined}, resource : Resources,
     kService : {Undefined}]
    \cup [method : {"GET"}, event_type : {Activated}, resource : {NoResource},
          kService : {Undefined}]

NoWebhook ==
    [method |-> Undefined, event_type |-> Undefined, resource |-> NoResource,
     kService |-> Undefined]

OffHook ==
    [pc |-> "off", msg |-> NoWebhook, userId |-> "null", status |-> 0,
     body |-> NoMessage, wrote |-> FALSE]

\* a delivery in flight, not yet handled
IdleHook(m) == [OffHook EXCEPT !.pc = "idle", !.msg = m]

HookRespond(w, status, body) ==
    [w EXCEPT !.pc = "done", !.status = status, !.body = body]

\* variant: the subscription id taken as the user id when no custom_id is found
ExtractUserId_ResourceId(resource) ==
    IF resource.present /\ resource.subscriber.present
       /\ ~Falsy(resource.subscriber.custom_id)
    THEN resource.subscriber.custom_id
    ELSE IF resource.present /\ ~Falsy(resource.custom_id)
         THEN resource.custom_id
         ELSE IF resource.present THEN resource.id ELSE "null"

\* variant: resource.custom_id looked at first
ExtractUserId_ResourceFirst(resource) ==
    IF resource.present /\ ~Falsy(resource.custom_id)
    THEN resource.custom_id
    ELSE IF resource.present /\ resource.subscriber.present
            /\ ~Falsy(resource.subscriber.custom_id)
         THEN resource.subscriber.custom_id
         ELSE "null"

\* STEP 2 of the handler: the Firebase UID passed as custom_id
ExtractUserId(resource) ==
    IF resource.present /\ resource.subscriber.present
       /\ ~Falsy(resource.subscriber.custom_id)
    THEN resource.subscriber.custom_id
    ELSE IF resource.present /\ ~Falsy(resource.custom_id)
         THEN resource.custom_id
         ELSE "null"

\* the fields of the merge-write of BILLING.SUBSCRIPTION.ACTIVATED
ActivatedFields(resource) ==
    [tier |-> "pro", status |-> "active", paypal_id |-> resource.id,
     expires_at |-> ServerTimestamp, updated_at |-> ServerTimestamp]

\* variant: the downgrade records the status and leaves the tier
DowngradeFields_StatusOnly(eventType) ==
    [status |-> ToLowerCase(eventType), updated_at |-> ServerTimestamp]

\* the fields of the merge-write of CANCELLED and EXPIRED
DowngradeFields(eventType) ==
    [tier |-> "free", status |-> ToLowerCase(eventType),
     updated_at |-> ServerTimestamp]

\* eventType === 'BILLING.SUBSCRIPTION.ACTIVATED'
IsActivation(eventType) == eventType = Activated

\* variant: a plain else in place of the else-if on CANCELLED and EXPIRED
IsDowngrade_Else(eventType) == TRUE

\* eventType === '...CANCELLED' || eventType === '...EXPIRED'
IsDowngrade(eventType) == eventType = Cancelled \/ eventType = Expired

\* the fields the event's merge-write sets
EventFields(eventType, resource) ==
    IF IsActivation(eventType) THEN ActivatedFields(resource)
    ELSE DowngradeFields(eventType)

\* res.status(204).send()
Acknowledge(w) == HookRespond(w, 204, NoMessage)

\* variant: the catch block acknowledges the delivery
UpdateFailed_Acknowledged(w) == HookRespond(w, 204, NoMessage)

\* the catch block of the handler
UpdateFailed(w) == HookRespond(w, 500, <<"Database Update Failed">>)

\* The handler from its entry up to `await userSubscriptionRef.set(...)`, or
\* to its response when the event needs no write.
HandleWebhook(w) ==
    IF w.msg.method # "POST"
    THEN HookRespond(w, 405, <<"Method Not Allowed">>)
    ELSE IF Falsy(w.msg.event_type)
    THEN HookRespond(w, 400, <<"Invalid webhook structure">>)
    ELSE LET userId == ExtractUserId(w.msg.resource)
             w1 == [w EXCEPT !.userId = userId]
         IN  IF Falsy(userId)
             THEN HookRespond(w1, 400, <<"Missing user ID in payload">>)
             ELSE IF IsActivation(w.msg.event_type) \/ IsDowngrade(w.msg.event_type)
                  THEN [w1 EXCEPT !.pc = "write"]
                  ELSE Acknowledge(w1)

------------------------------------------------------------------------------
(* Actions of a webhook delivery *)

HookReceive(h) ==
    /\ hook[h].pc = "idle"
    /\ hook' = [hook EXCEPT ![h] = HandleWebhook(@)]
    /\ UNCHANGED <<statusDoc, usageDoc, req, tally>>

HookSet(h) ==
    /\ hook[h].pc = "write"
    /\ statusDoc' = [statusDoc EXCEPT
                       ![StatusRef(AppId(hook[h].msg.kService), hook[h].userId)] =
                           MergeSet(@, EventFields(hook[h].msg.event_type,
                                                   hook[h].msg.resource))]
    /\ hook' = [hook EXCEPT ![h] = Acknowledge([@ EXCEPT !.wrote = TRUE])]
    /\ UNCHANGED <<usageDoc, req, tally>>

HookSetFault(h) ==
    /\ hook[h].pc = "write"
    /\ hook' = [hook EXCEPT ![h] = UpdateFailed(@)]
    /\ UNCHANGED <<statusDoc, usageDoc, req, tally>>

\* PayPal delivers the same event again
Redeliver(h) ==
    /\ hook[h].pc = "done"
    /\ hook' = [hook EXCEPT ![h] = IdleHook(@.msg)]
    /\ UNCHANGED <<statusDoc, usageDoc, req, tally>>

------------------------------------------------------------------------------
(* Initial states and specifications *)

\* SubscriptionStatus documents as the webhook handler or operator tooling
\* leaves them
InitStatusDocs ==
    {AbsentStatus} \cup
    { MergeSet(AbsentStatus, f) :
        f \in {ActivatedFields([id |-> "P1"]),
               [tier |-> "pro", status |-> "suspended", paypal_id |-> "P1"]} }

\* UsageCounter documents as the Gate leaves them
InitUsageDocs ==
    {AbsentUsage} \cup
    { MergeSet(AbsentUsage, UsageFields(c)) : c \in 1..MaxInitCount }

Fresh == [p \in StatusRefs |-> AbsentStatus]

FreshUsage == [p \in UsageRefs |-> AbsentUsage]

\* a well-formed request served by a process that has the API key and no
\* K_SERVICE
AnalysisRequest(adapter, token) ==
    [adapter |-> adapter, method |-> "POST", header |-> "Bearer " \o token,
     data |-> "payload", apiKey |-> "key", kService |-> Undefined]

Delivery(eventType, id, userId) ==
    [method |-> "POST", event_type |-> eventType,
     resource |-> [present |-> TRUE, id |-> id, subscriber |-> Subscriber(userId),
                   custom_id |-> Undefined],
     kService |-> Undefined]

\* the request or delivery m served by a process whose K_SERVICE is kService
ServedBy(m, kService) == [m EXCEPT !.kService = kService]

\* Two analysis requests of user u1 in flight, one at each deployment, and
\* one webhook delivery for u1; u1's documents are arbitrary, and the Express
\* process runs with or without the API key.
InitGate ==
    /\ tally = [u \in Users |-> NoTally]
    /\ \E s \in InitStatusDocs :
          statusDoc = [Fresh EXCEPT ![StatusRef(DefaultAppId, "u1")] = s]
    /\ \E c \in InitUsageDocs :
          usageDoc = [FreshUsage EXCEPT ![UsageRef(DefaultAppId, "u1")] = c]
    /\ \E k \in ApiKeys :
          req = [r \in Reqs |->
                   IdleReq(IF r = "r1"
                           THEN [AnalysisRequest("express", "tok1") EXCEPT !.apiKey = k]
                           ELSE AnalysisRequest("gcf", "tok1"))]
    /\ \E m \in {Delivery(Activated, "P2", "u1"), Delivery(Cancelled, "P2", "u1")} :
          hook = [h \in Hooks |-> IF h = "h1" THEN IdleHook(m) ELSE OffHook]

\* One analysis request of any shape in flight, u1's counter arbitrary in the
\* namespace of the serving process, and one webhook delivery.
InitInput ==
    /\ tally = [u \in Users |-> NoTally]
    /\ statusDoc = Fresh
    /\ \E m \in RequestMessages, c \in InitUsageDocs :
          /\ usageDoc = [FreshUsage EXCEPT ![UsageRef(AppId(m.kService), "u1")] = c]
          /\ req = [r \in Reqs |-> IF r = "r1" THEN IdleReq(m) ELSE OffReq]
    /\ hook = [h \in Hooks |->
                 IF h = "h1" THEN IdleHook(Delivery(Activated, "P2", "u2")) ELSE OffHook]

\* One webhook delivery of any shape in flight, a second one for u1, and one
\* analysis request of u1.
InitHooks ==
    /\ tally = [u \in Users |-> NoTally]
    /\ \E s \in InitStatusDocs :
          statusDoc = [Fresh EXCEPT ![StatusRef(DefaultAppId, "u1")] = s]
    /\ usageDoc = [FreshUsage EXCEPT
                     ![UsageRef(DefaultAppId, "u1")] =
                        MergeSet(AbsentUsage, UsageFields(FREE_TIER_LIMIT - 1))]
    /\ req = [r \in Reqs |->
                IF r = "r1" THEN IdleReq(AnalysisRequest("express", "tok1")) ELSE OffReq]
    /\ \E m1 \in WebhookMessages,
          m2 \in {Delivery(Activated, "P1", "u1"), Delivery(Expired, "P1", "u1")} :
          hook = [h \in Hooks |-> IF h = "h1" THEN IdleHook(m1) ELSE IdleHook(m2)]

\* The same event of u1 delivered twice: both deliveries in flight carry the
\* same payload and are served by the same function, with or without
\* K_SERVICE; one analysis request of u1.
InitDup ==
    /\ tally = [u \in Users |-> NoTally]
    /\ \E s \in InitStatusDocs :
          statusDoc = [Fresh EXCEPT ![StatusRef(DefaultAppId, "u1")] = s]
    /\ usageDoc = [FreshUsage EXCEPT
                     ![UsageRef(DefaultAppId, "u1")] =
                        MergeSet(AbsentUsage, UsageFields(FREE_TIER_LIMIT - 1))]
    /\ req = [r \in Reqs |->
                IF r = "r1" THEN IdleReq(AnalysisRequest("express", "tok1")) ELSE OffReq]
    /\ \E e \in {Activated, Cancelled, Expired}, id \in PaypalIds,
          k \in {Undefined, "paypalwebhookhandler"} :
          hook = [h \in Hooks |-> IdleHook(ServedBy(Delivery(e, id, "u1"), k))]

\* As InitGate, with u1's counter within the limit: absent or 1..FREE_TIER_LIMIT.
InitLimit ==
    /\ InitGate
    /\ usageDoc[UsageRef(DefaultAppId, "u1")].count <= FREE_TIER_LIMIT

\* the deliveries that leave u1 without an active pro subscription
NonProDeliveries == {Delivery(Cancelled, "P2", "u1"), Delivery(Activated, "P2", "u2")}

\* Two analysis requests of user u1 in flight, one at each deployment, the
\* two deployments in one namespace or the function in its own; u1 starts
\* with no documents, a CANCELLED delivery for u1 is in flight; the Gate's
\* decisions are tallied from the start.
InitRace ==
    /\ tally = [u \in Users |-> ZeroTally]
    /\ statusDoc = Fresh
    /\ usageDoc = FreshUsage
    /\ \E k \in {Undefined, "runanalysis-function"} :
          req = [r \in Reqs |->
                   IdleReq(IF r = "r1"
                           THEN AnalysisRequest("express", "tok1")
                           ELSE ServedBy(AnalysisRequest("gcf", "tok1"), k))]
    /\ hook = [h \in Hooks |->
                 IF h = "h1" THEN IdleHook(Delivery(Cancelled, "P2", "u1")) ELSE OffHook]

\* The requests of user u1 sent one after another: one request in flight at
\* a time, at either deployment, with or without K_SERVICE; u1 starts with
\* no documents and is never made pro; the Gate's decisions are tallied from
\* the start.
InitSerial ==
    /\ tally = [u \in Users |-> ZeroTally]
    /\ statusDoc = Fresh
    /\ usageDoc = FreshUsage
    /\ \E a \in Adapters, k \in {Undefined, "runanalysis-function"} :
          req = [r \in Reqs |->
                   IF r = "r1" THEN IdleReq(ServedBy(AnalysisRequest(a, "tok1"), k))
                   ELSE OffReq]
    /\ \E m \in NonProDeliveries :
          hook = [h \in Hooks |-> IF h = "h1" THEN IdleHook(m) ELSE OffHook]

\* No SubscriptionStatus document exists yet: whatever one holds later was
\* written by the handler.  One webhook delivery of any shape in flight, a
\* second one of a recognized event for u1, both served by the function
\* deployed as paypalwebhookhandler, and one analysis request of u1 served
\* by a process without K_SERVICE.
InitLedger ==
    /\ tally = [u \in Users |-> NoTally]
    /\ statusDoc = Fresh
    /\ usageDoc = [FreshUsage EXCEPT
                     ![UsageRef(DefaultAppId, "u1")] =
                        MergeSet(AbsentUsage, UsageFields(FREE_TIER_LIMIT - 1))]
    /\ req = [r \in Reqs |->
                IF r = "r1" THEN IdleReq(AnalysisRequest("express", "tok1")) ELSE OffReq]
    /\ \E m1 \in WebhookMessages, e \in {Activated, Cancelled, Expired} :
          hook = [h \in Hooks |->
                    IdleHook(ServedBy(IF h = "h1" THEN m1 ELSE Delivery(e, "P1", "u1"),
                                      "paypalwebhookhandler"))]

TypeOK ==
    /\ \A p \in UsageRefs : usageDoc[p].count \in Nat
    /\ \A r \in Reqs : req[r].pc \in {"off", "idle", "verify", "reads", "write",
                                      "analysis", "done"}
    /\ \A h \in Hooks : hook[h].pc \in {"off", "idle", "write", "done"}

Init == InitGate

Next ==
    \/ \E r \in Reqs :
          \/ Receive(r)
          \/ VerifyFails(r)
          \/ VerifyOk(r)
          \/ StatusGet(r)
          \/ UsageGet(r)
          \/ GetFault(r)
          \/ UsageSet(r)
          \/ UsageSetFault(r)
          \/ AnalysisOk(r)
          \/ AnalysisFails(r)
          \/ Retry(r)
    \/ \E h \in Hooks :
          \/ HookReceive(h)
          \/ HookSet(h)
          \/ HookSetFault(h)
          \/ Redeliver(h)

Spec == Init /\ [][Next]_vars

SpecInput == InitInput /\ [][Next]_vars

SpecHooks == InitHooks /\ [][Next]_vars

SpecDup == InitDup /\ [][Next]_vars

SpecLimit == InitLimit /\ [][Next]_vars

SpecRace == InitRace /\ [][Next]_vars

SpecSerial == InitSerial /\ [][Next]_vars

SpecLedger == InitLedger /\ [][Next]_vars

------------------------------------------------------------------------------
(* Observations the properties are stated with *)

\* number of UsageCounter merge-writes the invocation has issued
UsageSets(q) == Cardinality({i \in DOMAIN q.calls : q.calls[i] = "usage.set"})

Called(q, op) == \E i \in DOMAIN q.calls : q.calls[i] = op

\* the step in which the Gate's two reads have both returned
ReadsReturn(r) ==
    req[r].pc = "reads" /\ req'[r].pc # "reads" /\ req'[r].fault = "none"

\* the documents of the caller of request r, in the namespace of the process
\* that serves it
ReqStatusRef(r) == StatusRef(AppId(req[r].msg.kService), req[r].uid)

ReqUsageRef(r) == UsageRef(AppId(req[r].msg.kService), req[r].uid)

\* what the SubscriptionStatus read of that evaluation returned
StatusRead(r) ==
    IF req[r].statusGot THEN req[r].statusData
    ELSE IF statusDoc[ReqStatusRef(r)].exists
         THEN [tier |-> statusDoc[ReqStatusRef(r)].tier,
               status |-> statusDoc[ReqStatusRef(r)].status]
         ELSE [tier |-> "free", status |-> "unknown"]

\* what the UsageCounter read of that evaluation returned
CountRead(r) ==
    IF req[r].usageGot THEN req[r].currentCount
    ELSE IF usageDoc[ReqUsageRef(r)].exists THEN usageDoc[ReqUsageRef(r)].count ELSE 0

ActivePro(r) == StatusRead(r).tier = "pro" /\ StatusRead(r).status = "active"

UsageText(n) == <<"Free tier usage: ", ToString(n), "/", "5", " analyses used.">>

------------------------------------------------------------------------------
(* Properties *)

\* C1: when the status read returns tier = pro and status = active, the Gate
\* returns canProceed = true with reason 'Pro subscription active.' whatever
\* the count read is, and the evaluation issues no write to the UsageCounter.
C1_ProAlwaysAdmitted ==
    [][\A r \in Reqs :
         (ReadsReturn(r) /\ ActivePro(r)) =>
            /\ req'[r].gate = "returned"
            /\ req'[r].authCheck =
                 [canProceed |-> TRUE, message |-> <<"Pro subscription active.">>]
            /\ UsageSets(req'[r]) = 0
            /\ usageDoc' = usageDoc]_vars

\* an active pro user at or over the limit has been admitted without a write
C1_Witness ==
    \E r \in Reqs :
       /\ req[r].gate = "returned"
       /\ req[r].authCheck.canProceed
       /\ req[r].authCheck.message = <<"Pro subscription active.">>
       /\ req[r].calls = <<"verifyIdToken", "status.get", "usage.get">>
       /\ statusDoc[ReqStatusRef(r)].tier = "pro"
       /\ statusDoc[ReqStatusRef(r)].status = "active"
       /\ usageDoc[ReqUsageRef(r)].count >= 5

\* C2: when the status read is not (pro and active) and the count read c is
\* below 5, the Gate issues exactly one merge-write, of count = c + 1, and
\* once that write is applied it admits with the reason reporting (c + 1)/5.
C2_FreeAdmittedAndCounted ==
    [][\A r \in Reqs :
         /\ (ReadsReturn(r) /\ ~ActivePro(r) /\ CountRead(r) < 5) =>
               /\ req'[r].pc = "write"
               /\ req'[r].newCount = CountRead(r) + 1
               /\ req'[r].currentCount = CountRead(r)
               /\ UsageSets(req'[r]) = 1
               /\ usageDoc' = usageDoc
         /\ (req[r].pc = "write" /\ req'[r].pc # "write" /\ req'[r].fault = "none") =>
               /\ usageDoc'[ReqUsageRef(r)].exists
               /\ usageDoc'[ReqUsageRef(r)].count = req[r].currentCount + 1
               /\ \A p \in UsageRefs \ {ReqUsageRef(r)} : usageDoc'[p] = usageDoc[p]
               /\ req'[r].authCheck =
                    [canProceed |-> TRUE,
                     message |-> UsageText(req[r].currentCount + 1)]
               /\ UsageSets(req'[r]) = 1]_vars

\* a user with no documents has been admitted and the count became 1
C2_Witness ==
    \E r \in Reqs :
       /\ req[r].gate = "returned"
       /\ req[r].authCheck = [canProceed |-> TRUE, message |-> UsageText(1)]
       /\ ~statusDoc[ReqStatusRef(r)].exists
       /\ usageDoc[ReqUsageRef(r)].exists
       /\ usageDoc[ReqUsageRef(r)].count = 1

\* C3: when the status read is not (pro and active) and the count read is 5
\* or more, the Gate returns canProceed = false and issues no write: the
\* UsageCounter is unchanged by the evaluation.
C3_OverLimitDenied ==
    [][\A r \in Reqs :
         (ReadsReturn(r) /\ ~ActivePro(r) /\ CountRead(r) >= 5) =>
            /\ req'[r].gate = "returned"
            /\ ~req'[r].authCheck.canProceed
            /\ UsageSets(req'[r]) = 0
            /\ usageDoc' = usageDoc]_vars

\* a non-pro user at the limit has been denied, the count still at the limit
C3_Witness ==
    \E r \in Reqs :
       /\ req[r].gate = "returned"
       /\ ~req[r].authCheck.canProceed
       /\ req[r].fault = "none"
       /\ req[r].calls = <<"verifyIdToken", "status.get", "usage.get">>
       /\ statusDoc[ReqStatusRef(r)].tier # "pro"
       /\ usageDoc[ReqUsageRef(r)].count = 5

\* C4: an evaluation in which a document read or the counter merge-write
\* failed returns canProceed = false with reason 'Internal server error
\* during authorization check.'; it never admits.
C4_DenyClosed ==
    \A r \in Reqs :
       req[r].fault # "none" =>
          /\ req[r].gate = "returned"
          /\ req[r].authCheck =
               [canProceed |-> FALSE,
                message |-> <<"Internal server error during authorization check.">>]
          /\ req[r].pc = "done"
          /\ req[r].status # 200
          /\ ~Called(req[r], "generateContent")

\* one evaluation lost its merge-write, another one a read
C4_Witness ==
    /\ req["r1"].fault = "usage.set"
    /\ req["r2"].fault \in {"status.get", "usage.get"}
    /\ ~req["r1"].authCheck.canProceed
    /\ ~req["r2"].authCheck.canProceed

\* C5: the stored count of a user is monotonically non-decreasing: no step
\* lowers it, under any interleaving of requests and webhook deliveries.
C5_CountNeverLowered ==
    [][\A p \in UsageRefs : usageDoc'[p].count >= usageDoc[p].count]_vars

\* C6: when a free-tier request was admitted and the Oracle call then fails
\* (empty output, malformed JSON or transport error), the request is answered
\* 500, and neither that step nor the invocation undoes the Gate's increment.
C6_SpentOnAttempt ==
    [][\A r \in Reqs :
         (/\ req[r].pc = "analysis"
          /\ UsageSets(req[r]) = 1
          /\ req'[r].oracle \in {"empty", "malformed", "transport"}) =>
            /\ req'[r].pc = "done"
            /\ req'[r].status = 500
            /\ UsageSets(req'[r]) = 1
            /\ usageDoc' = usageDoc]_vars

\* a free-tier request was admitted as the 5th use, its Oracle call failed,
\* and the stored count still is 5
C6_Witness ==
    \E r \in Reqs :
       /\ req[r].pc = "done"
       /\ req[r].status = 500
       /\ req[r].oracle = "malformed"
       /\ req[r].authCheck = [canProceed |-> TRUE, message |-> UsageText(5)]
       /\ usageDoc[ReqUsageRef(r)].count = 5

\* C7: when identity-token verification fails the request is answered 401,
\* and in that request the Gate is never evaluated, no quota document is read
\* or written and the Oracle is never called.
C7_VerificationFailure ==
    [][\A r \in Reqs :
         (req[r].pc = "verify" /\ req'[r].pc # "verify" /\ req'[r].gate = "none") =>
            /\ req'[r].pc = "done"
            /\ req'[r].status = 401
            /\ req'[r].calls = <<"verifyIdToken">>
            /\ statusDoc' = statusDoc
            /\ usageDoc' = usageDoc]_vars

\* a request with an expired token has been answered 401
C7_Witness ==
    \E r \in Reqs :
       /\ req[r].msg.header = "Bearer expired"
       /\ req[r].pc = "done"
       /\ req[r].status = 401
       /\ req[r].gate = "none"

\* C8: a POSTed analysis request without a bearer token or without the
\* analysis payload is answered 400 before any identity verification, any
\* quota-store read or write and any Oracle call.
C8_MissingInputRejected ==
    [][\A r \in Reqs :
         (/\ req[r].pc = "idle" /\ req'[r].pc # "idle"
          /\ req[r].msg.method = "POST"
          /\ \/ req[r].msg.header \notin {"Bearer tok1", "Bearer tok2", "Bearer expired"}
             \/ req[r].msg.data = Undefined) =>
            /\ req'[r].pc = "done"
            /\ req'[r].status = 400
            /\ req'[r].calls = <<>>
            /\ req'[r].gate = "none"
            /\ statusDoc' = statusDoc
            /\ usageDoc' = usageDoc]_vars

\* a request with a token and no payload has been answered 400
C8_Witness ==
    \E r \in Reqs :
       /\ req[r].msg.header = "Bearer tok1"
       /\ req[r].msg.data = Undefined
       /\ req[r].pc = "done"
       /\ req[r].status = 400
       /\ req[r].calls = <<>>

\* C9: the Oracle is called only after verification succeeded and the Gate
\* admitted (the call is issued in the step of the admission, unless the
\* Express build lacks the API key and answers 500 without calling);
\* a Gate denial is answered 403 with the Gate's reason as error;
\* a 200 is sent only when the Oracle returned a result, and its message is
\* the Gate's admission reason.
C9_OracleOnlyAfterAdmission ==
    \A r \in Reqs :
       /\ (req[r].pc = "analysis" \/ req[r].oracle # "none"
           \/ Called(req[r], "generateContent")) =>
             /\ Len(req[r].calls) >= 3
             /\ req[r].calls[1] = "verifyIdToken"
             /\ req[r].uid \in Users
             /\ req[r].gate = "returned"
             /\ req[r].authCheck.canProceed
       /\ (req[r].gate = "returned" /\ ~req[r].authCheck.canProceed) =>
             /\ req[r].pc = "done"
             /\ req[r].status = 403
             /\ req[r].body.error = req[r].authCheck.message
             /\ req[r].authCheck.message # <<>>
       /\ req[r].status = 403 => (req[r].gate = "returned" /\ ~req[r].authCheck.canProceed)
       /\ req[r].pc = "analysis" => Called(req[r], "generateContent")
       /\ req[r].oracle = "missing_key" =>
             (~Called(req[r], "generateContent") /\ req[r].status = 500)
       /\ req[r].status = 200 =>
             /\ req[r].oracle = "ok"
             /\ req[r].body.result # Undefined
             /\ req[r].authCheck.canProceed
             /\ req[r].body.message = req[r].authCheck.message
             /\ req[r].body.message # <<>>

\* one request was denied at the limit and answered 403, the other was
\* admitted as the 5th use and answered 200
C9_Witness ==
    \E r, d \in Reqs :
       /\ req[d].status = 403
       /\ req[d].body.error =
            <<"Free tier limit of ", "5", " analyses exceeded. Please upgrade to Pro.">>
       /\ req[r].status = 200
       /\ req[r].body.message = UsageText(5)
       /\ req[r].body.result = "json"

\* the user id of a payload: resource.subscriber.custom_id or, failing that,
\* resource.custom_id
PayloadUser(m) ==
    IF m.resource.subscriber.present /\ m.resource.subscriber.custom_id \in Users
    THEN m.resource.subscriber.custom_id
    ELSE m.resource.custom_id

HasPayloadUser(m) == m.resource.present /\ PayloadUser(m) \in Users

\* the SubscriptionStatus document of the payload's user, in the namespace of
\* the process that serves the delivery
PayloadStatusRef(m) == StatusRef(AppId(m.kService), PayloadUser(m))

\* C10: a BILLING.SUBSCRIPTION.ACTIVATED webhook whose user id is found at
\* resource.subscriber.custom_id or, failing that, at resource.custom_id is
\* taken to the merge-write for that user, and the write makes that user's
\* SubscriptionStatus hold tier = pro, status = active, paypal_id =
\* resource.id, whatever it held before.
C10_ActivatedMakesPro ==
    [][\A h \in Hooks :
         LET m == hook[h].msg IN
         (m.method = "POST" /\ m.event_type = "BILLING.SUBSCRIPTION.ACTIVATED"
          /\ HasPayloadUser(m)) =>
            /\ (hook[h].pc = "idle" /\ hook'[h].pc # "idle") =>
                  (hook'[h].pc = "write" /\ hook'[h].userId = PayloadUser(m))
            /\ (hook[h].pc = "write" /\ hook'[h].status = 204) =>
                  /\ statusDoc'[PayloadStatusRef(m)].exists
                  /\ statusDoc'[PayloadStatusRef(m)].tier = "pro"
                  /\ statusDoc'[PayloadStatusRef(m)].status = "active"
                  /\ statusDoc'[PayloadStatusRef(m)].paypal_id = m.resource.id
                  /\ \A p \in StatusRefs \ {PayloadStatusRef(m)} : statusDoc'[p] = statusDoc[p]]_vars

\* an activation whose subscriber carries no custom_id and whose user id is at
\* resource.custom_id was applied to that user, who had no document before
C10_Witness ==
    \E h \in Hooks :
       LET m == hook[h].msg IN
       /\ hook[h].pc = "done" /\ hook[h].status = 204 /\ hook[h].wrote
       /\ m.event_type = "BILLING.SUBSCRIPTION.ACTIVATED"
       /\ m.resource.subscriber = Subscriber(Undefined)
       /\ m.resource.custom_id = "u2"
       /\ m.resource.id = "P2"
       /\ statusDoc[StatusRef(DefaultAppId, "u2")].tier = "pro"
       /\ statusDoc[StatusRef(DefaultAppId, "u2")].status = "active"
       /\ statusDoc[StatusRef(DefaultAppId, "u2")].paypal_id = "P2"


\* C11: the merge-write of a SUBSCRIPTION.CANCELLED webhook leaves the user's
\* SubscriptionStatus at tier = free with status = cancelled, that of a
\* SUBSCRIPTION.EXPIRED webhook at tier = free with status = expired.
C11_DowngradeStatus ==
    [][\A h \in Hooks :
         LET m == hook[h].msg IN
         (hook[h].pc = "write" /\ hook'[h].status = 204 /\ HasPayloadUser(m)) =>
            /\ m.event_type = Cancelled =>
                  /\ statusDoc'[PayloadStatusRef(m)].tier = "free"
                  /\ statusDoc'[PayloadStatusRef(m)].status = "cancelled"
            /\ m.event_type = Expired =>
                  /\ statusDoc'[PayloadStatusRef(m)].tier = "free"
                  /\ statusDoc'[PayloadStatusRef(m)].status = "expired"]_vars


\* the event types the handler writes for
Recognized(eventType) == eventType \in {Activated, Cancelled, Expired}

\* C12: a POST webhook that carries a user id and an event_type other than
\* ACTIVATED, CANCELLED and EXPIRED is answered 204 in the step that receives
\* it, issues no write to the store at any point, and leaves every
\* SubscriptionStatus and UsageCounter document as it was.
C12_UnrecognizedAcknowledged ==
    [][\A h \in Hooks :
         LET m == hook[h].msg IN
         (m.method = "POST" /\ ~Falsy(m.event_type) /\ ~Recognized(m.event_type)
          /\ HasPayloadUser(m)) =>
            /\ hook[h].pc # "write" /\ ~hook[h].wrote
            /\ hook'[h].pc # "write" /\ ~hook'[h].wrote
            /\ (hook[h].pc = "idle" /\ hook'[h].pc # "idle") =>
                  /\ hook'[h].pc = "done"
                  /\ hook'[h].status = 204
                  /\ hook'[h].body = NoMessage
                  /\ statusDoc' = statusDoc
                  /\ usageDoc' = usageDoc]_vars

\* a PAYMENT.SALE.COMPLETED delivery for a user holding an active pro
\* subscription was acknowledged, and the subscription is still active pro
C12_Witness ==
    \E h \in Hooks :
       LET m == hook[h].msg IN
       /\ m.method = "POST" /\ m.event_type = SaleCompleted /\ HasPayloadUser(m)
       /\ hook[h].pc = "done" /\ hook[h].status = 204 /\ ~hook[h].wrote
       /\ statusDoc[PayloadStatusRef(m)].tier = "pro"
       /\ statusDoc[PayloadStatusRef(m)].status = "active"


\* C13: a POST webhook with no event_type, or with a user id neither at
\* resource.subscriber.custom_id nor at resource.custom_id, is answered 400 in
\* the step that receives it, whatever its event type, and issues no write to
\* the store: no document changes.
C13_MalformedRejected ==
    [][\A h \in Hooks :
         LET m == hook[h].msg IN
         (m.method = "POST" /\ (Falsy(m.event_type) \/ ~HasPayloadUser(m))) =>
            /\ hook[h].pc # "write" /\ ~hook[h].wrote
            /\ hook'[h].pc # "write" /\ ~hook'[h].wrote
            /\ (hook[h].pc = "idle" /\ hook'[h].pc # "idle") =>
                  /\ hook'[h].pc = "done"
                  /\ hook'[h].status = 400
                  /\ statusDoc' = statusDoc
                  /\ usageDoc' = usageDoc]_vars

\* a CANCELLED delivery whose resource has a subscriber but no custom_id
\* anywhere was answered 400 without a write
C13_Witness ==
    \E h \in Hooks :
       LET m == hook[h].msg IN
       /\ m.method = "POST" /\ m.event_type = Cancelled
       /\ m.resource.present /\ m.resource.subscriber.present
       /\ m.resource.subscriber.custom_id = Undefined
       /\ m.resource.custom_id = Undefined
       /\ hook[h].pc = "done" /\ hook[h].status = 400 /\ ~hook[h].wrote
       /\ hook[h].body = <<"Missing user ID in payload">>


\* C14: when the merge-write of a recognized event fails, the delivery is
\* answered 500 and every SubscriptionStatus is left as it was; a delivery is
\* answered 204 only when its write was applied or its event needs no write.
C14_FailedWriteNotAcknowledged ==
    [][\A h \in Hooks :
         /\ (hook[h].pc = "write" /\ hook'[h].pc # "write" /\ ~hook'[h].wrote) =>
               /\ Recognized(hook[h].msg.event_type)
               /\ hook'[h].pc = "done"
               /\ hook'[h].status = 500
               /\ hook'[h].body = <<"Database Update Failed">>
               /\ statusDoc' = statusDoc
         /\ hook'[h].status = 204 =>
               (hook'[h].wrote \/ ~Recognized(hook'[h].msg.event_type))]_vars

\* the write of a CANCELLED delivery for an active pro user failed: answered
\* 500, the user still active pro
C14_Witness ==
    \E h \in Hooks :
       LET m == hook[h].msg IN
       /\ m.event_type = Cancelled /\ HasPayloadUser(m)
       /\ hook[h].pc = "done" /\ hook[h].status = 500 /\ ~hook[h].wrote
       /\ statusDoc[PayloadStatusRef(m)].tier = "pro"
       /\ statusDoc[PayloadStatusRef(m)].status = "active"


\* the SubscriptionStatus document delivery h addresses once it has its user id
HookStatusRef(h) == StatusRef(AppId(hook[h].msg.kService), hook[h].userId)

\* C15: when an ACTIVATED, CANCELLED or EXPIRED event is delivered twice and
\* the writes of both deliveries are applied one after the other, the second
\* write leaves tier, status and paypal_id of the user's SubscriptionStatus
\* exactly as the first left them.  (Every delivery of SpecDup carries the
\* same event, so a write applied while the other delivery stands answered
\* with its write applied follows an application of that event directly.)
C15_DuplicateIdempotent ==
    [][\A h, g \in Hooks :
         (/\ h # g
          /\ hook[g].msg = hook[h].msg
          /\ Recognized(hook[h].msg.event_type)
          /\ hook[g].pc = "done" /\ hook[g].wrote
          /\ hook[h].pc = "write" /\ hook'[h].wrote) =>
            LET u == HookStatusRef(h) IN
            /\ statusDoc'[u].exists /\ statusDoc[u].exists
            /\ statusDoc'[u].tier = statusDoc[u].tier
            /\ statusDoc'[u].status = statusDoc[u].status
            /\ statusDoc'[u].paypal_id = statusDoc[u].paypal_id]_vars

\* both deliveries of a CANCELLED event for a user who was active pro under
\* another subscription id have been applied: the user is free, the
\* subscription id the one held before
C15_Witness ==
    /\ \A h \in Hooks :
          /\ hook[h].msg.event_type = Cancelled
          /\ hook[h].msg.resource.id = "P2"
          /\ hook[h].msg.kService = Undefined
          /\ hook[h].pc = "done" /\ hook[h].status = 204 /\ hook[h].wrote
    /\ statusDoc[StatusRef(DefaultAppId, "u1")].tier = "free"
    /\ statusDoc[StatusRef(DefaultAppId, "u1")].paypal_id = "P1"


\* the message shows `used`/`limit`: the pieces used, "/", limit in a row (no
\* other piece of a message of the program holds a "/")
ShowsUsage(message, used, limit) ==
    \E i \in 1..(Len(message) - 2) :
       /\ message[i] = ToString(used)
       /\ message[i + 1] = "/"
       /\ message[i + 2] = ToString(limit)

\* the evaluation found tier = free and count = 5
FreeAtLimit(r) ==
    ReadsReturn(r) /\ StatusRead(r).tier = "free" /\ CountRead(r) = 5

\* C16 as stated: for a user with tier = free and count = 5 the Gate denies
\* and the denial message contains the text '5/5'.
C16_DenialShowsUsage ==
    [][\A r \in Reqs :
         FreeAtLimit(r) =>
            /\ req'[r].gate = "returned"
            /\ ~req'[r].authCheck.canProceed
            /\ ShowsUsage(req'[r].authCheck.message, 5, 5)]_vars

\* C16, amended: for a user with tier = free and count = 5 the Gate denies
\* with the message 'Free tier limit of 5 analyses exceeded. Please upgrade to
\* Pro.', which the handler sends with status 403; no write is issued and the
\* counter stays at 5.
C16_DenialNamesLimit ==
    [][\A r \in Reqs :
         FreeAtLimit(r) =>
            /\ req'[r].gate = "returned"
            /\ ~req'[r].authCheck.canProceed
            /\ req'[r].authCheck.message =
                 <<"Free tier limit of ", "5", " analyses exceeded. Please upgrade to Pro.">>
            /\ ~ShowsUsage(req'[r].authCheck.message, 5, 5)
            /\ req'[r].pc = "done" /\ req'[r].status = 403
            /\ req'[r].body.error = req'[r].authCheck.message
            /\ UsageSets(req'[r]) = 0
            /\ usageDoc' = usageDoc]_vars

\* a request of a user downgraded to tier = free whose counter stands at 5
\* was denied with the limit message
C16_Witness ==
    \E r \in Reqs :
       /\ req[r].pc = "done" /\ req[r].status = 403 /\ req[r].fault = "none"
       /\ req[r].authCheck.message =
            <<"Free tier limit of ", "5", " analyses exceeded. Please upgrade to Pro.">>
       /\ UsageSets(req[r]) = 0
       /\ statusDoc[ReqStatusRef(r)].tier = "free"
       /\ usageDoc[ReqUsageRef(r)].count = 5


\* C17: a request during whose authorization a quota-store read or write
\* failed is answered with status 500.
C17_StorageFaultAnswered500 ==
    \A r \in Reqs :
       (req[r].pc = "done" /\ req[r].fault # "none") => req[r].status = 500


\* the step applies the counter merge-write of the evaluation
WriteApplied(r) ==
    req[r].pc = "write" /\ req'[r].pc # "write" /\ req'[r].fault = "none"

\* C18: the counter increment is an unguarded read-modify-write.  An applied
\* merge-write stores the count its evaluation read plus one whatever the
\* counter holds by then, and its request is admitted; so the stored count
\* never exceeds the number of requests admitted, while two evaluations that
\* read the same count both store that count plus one and are both admitted
\* (C18_Witness).
C18_UnguardedIncrement ==
    [][\A r \in Reqs :
         WriteApplied(r) =>
            LET u == req[r].uid IN
            /\ usageDoc'[ReqUsageRef(r)].count = req[r].newCount
            /\ req[r].newCount = req[r].currentCount + 1
            /\ req[r].currentCount < FREE_TIER_LIMIT
            /\ req'[r].authCheck.canProceed
            /\ req'[r].authCheck.message = UsageText(req[r].newCount)
            /\ tally'[u].admitted = tally[u].admitted + 1
            /\ usageDoc'[ReqUsageRef(r)].count <= tally'[u].admitted]_vars

\* both requests in flight, served in one namespace, read the count 4, both
\* stored 5 and both were admitted as the 5th use: 6 requests of the user
\* have been admitted, more than the stored count and more than the limit
C18_Witness ==
    /\ \A r \in Reqs :
          /\ req[r].uid = "u1"
          /\ req[r].msg.kService = Undefined
          /\ req[r].gate = "returned"
          /\ req[r].authCheck.canProceed
          /\ req[r].authCheck.message = UsageText(5)
    /\ usageDoc[UsageRef(DefaultAppId, "u1")].count = 5
    /\ tally["u1"].admitted = 6
    /\ tally["u1"].admitted > usageDoc[UsageRef(DefaultAppId, "u1")].count
    /\ tally["u1"].admitted > FREE_TIER_LIMIT
    /\ ~IsProActive(DataOr(statusDoc[StatusRef(DefaultAppId, "u1")], DefaultStatus))


\* C19: starting from a count in 0..5, no reachable state holds a stored count
\* above FREE_TIER_LIMIT = 5, under any interleaving of the evaluations in
\* flight: every write pending or applied is a read count below 5 plus one.
C19_CountWithinLimit ==
    /\ \A p \in UsageRefs : usageDoc[p].count <= FREE_TIER_LIMIT
    /\ \A r \in Reqs :
          req[r].pc = "write" =>
             /\ req[r].currentCount < FREE_TIER_LIMIT
             /\ req[r].newCount = req[r].currentCount + 1
             /\ req[r].newCount <= FREE_TIER_LIMIT

\* the counter already stands at 5, written by an evaluation that read 4,
\* while the write of a second evaluation that also read 4 is still pending
C19_Witness ==
    \E r, p \in Reqs :
       /\ r # p
       /\ req[r].gate = "returned" /\ req[r].authCheck.message = UsageText(5)
       /\ req[p].pc = "write" /\ req[p].currentCount = 4 /\ req[p].newCount = 5
       /\ req[p].uid = req[r].uid
       /\ usageDoc[ReqUsageRef(p)].count = 5


Min(a, b) == IF a <= b THEN a ELSE b

\* u1's UsageCounter in the namespace of the deployment that serves r1
SerialUsageRef == UsageRef(AppId(req["r1"].msg.kService), "u1")

\* C20: when the requests of a user who starts with no documents and never
\* holds an active pro subscription are handled one after another by one
\* deployment, then at every point the count stored in the namespace of
\* that deployment equals the number of requests the Gate has admitted, and of the requests the Gate has decided exactly the first 5
\* are admitted and every later one is denied.  (An evaluation cut short by
\* a storage fault decides nothing: it is denied by the catch block and
\* leaves count and admissions as they were.)
C20_SerialQuota ==
    LET t == tally["u1"]
        c == usageDoc[SerialUsageRef].count
    IN  /\ c = t.admitted
        /\ Handled = t.admitted + t.denied + t.failed
        /\ t.admitted = Min(Handled - t.failed, FREE_TIER_LIMIT)
        /\ t.denied > 0 => t.admitted = FREE_TIER_LIMIT
        /\ \A r \in Reqs :
              (req[r].gate = "returned" /\ req[r].fault = "none") =>
                 IF req[r].authCheck.canProceed
                 THEN req[r].authCheck.message = UsageText(c)
                 ELSE c = FREE_TIER_LIMIT /\ t.denied > 0

\* seven requests were handled without a fault: five admitted, two denied,
\* the counter at 5
C20_Witness ==
    /\ tally["u1"].admitted = 5
    /\ tally["u1"].denied = 2
    /\ tally["u1"].failed = 0
    /\ usageDoc[SerialUsageRef].count = 5
    /\ \E r \in Reqs : req[r].status = 403 /\ req[r].fault = "none"


\* the step applies the merge-write of the delivery
EventApplied(h) == hook[h].pc = "write" /\ hook'[h].wrote

\* C21: (1) the write of an ACTIVATED, CANCELLED or EXPIRED delivery, when
\* applied, sets the user's tier and status to those of its event, and no
\* other step changes a SubscriptionStatus document, so the stored tier and
\* status are always those of the event applied last, in whatever order and
\* however often the deliveries are handled; (2) a document written only by
\* the handler has tier = pro exactly when status = active; (3) no step of
\* the webhook handler changes a UsageCounter document and no step of an
\* analysis request changes a SubscriptionStatus document.
C21_LastAppliedEventWins ==
    [][/\ \A h \in Hooks :
            EventApplied(h) =>
               LET e == hook[h].msg.event_type
                   u == HookStatusRef(h)
               IN  /\ Recognized(e) /\ hook[h].userId = PayloadUser(hook[h].msg)
                   /\ statusDoc'[u].tier = IF e = Activated THEN "pro" ELSE "free"
                   /\ statusDoc'[u].status =
                        CASE e = Activated -> "active"
                          [] e = Cancelled -> "billing.subscription.cancelled"
                          [] e = Expired   -> "billing.subscription.expired"
                   /\ \A v \in StatusRefs \ {u} : statusDoc'[v] = statusDoc[v]
       /\ statusDoc' # statusDoc => \E h \in Hooks : EventApplied(h)
       /\ \A u \in StatusRefs :
             /\ statusDoc[u].tier = "pro" <=> statusDoc[u].status = "active"
             /\ statusDoc'[u].tier = "pro" <=> statusDoc'[u].status = "active"
       /\ hook' # hook => (usageDoc' = usageDoc /\ req' = req)
       /\ req' # req => (statusDoc' = statusDoc /\ hook' = hook)
       /\ usageDoc' # usageDoc =>
             \E r \in Reqs : req[r].pc = "write" /\ req'[r].pc # "write"]_vars

\* an EXPIRED and an ACTIVATED delivery for the same user were both applied,
\* the activation last: in the handler's namespace the user is active pro
\* under the activation's subscription id, and meanwhile the Gate has
\* counted a use of the user in the namespace of its own process
C21_Witness ==
    /\ hook["h1"].msg.event_type = Activated /\ hook["h1"].msg.resource.id = "P2"
    /\ hook["h2"].msg.event_type = Expired
    /\ \A h \in Hooks : hook[h].pc = "done" /\ hook[h].wrote /\ hook[h].userId = "u1"
    /\ statusDoc[StatusRef("paypalwebhookhandler", "u1")].tier = "pro"
    /\ statusDoc[StatusRef("paypalwebhookhandler", "u1")].status = "active"
    /\ statusDoc[StatusRef("paypalwebhookhandler", "u1")].paypal_id = "P2"
    /\ usageDoc[UsageRef(DefaultAppId, "u1")].count = FREE_TIER_LIMIT

====
